---- MODULE Spec2Model ----
(***************************************************************************)
(* Game analysis core of chess-AI: the two analysers of the repository,    *)
(* ChessAnalysisService (backend/app/services/chess_analysis.py) and       *)
(* ChessAnalyzer (backend/app/services/chess_analyzer.py).                 *)
(*                                                                         *)
(* A movetext is abstracted to what chess.pgn.read_game makes of it: the   *)
(* number of legal mainline moves before the first token it cannot play,   *)
(* whether such a token exists, whether the text is empty, and the side to *)
(* move of the starting position (FEN header).  The oracle (Stockfish) is  *)
(* an input: each evaluation request draws an answer from OracleScores.   *)
(* Moves are identified by their ply number; 0 is a move that is not in    *)
(* the game, NoMove is Python's None.                                      *)
(***************************************************************************)
EXTENDS Integers, Sequences, FiniteSets, TLC

VARIABLES pc, impl, pgn, user_color, pov, engine, game, board,
          info_before, prev_eval_cp, move_number, move_data, evaluations,
          total_centipawn_loss, move_count, result, raised, call, oracle_prev,
          budget, requests, oracle_line, history, tasks, processes, sent,
          walk, store, sessions, account

vars == <<pc, impl, pgn, user_color, pov, engine, game, board,
          info_before, prev_eval_cp, move_number, move_data, evaluations,
          total_centipawn_loss, move_count, result, raised, call, oracle_prev,
          budget, requests, oracle_line, history, tasks, processes, sent,
          walk, store, sessions, account>>

\* the variables of one call on its own
single == <<pc, impl, pgn, user_color, pov, engine, game, board,
            info_before, prev_eval_cp, move_number, move_data, evaluations,
            total_centipawn_loss, move_count, result, raised, call, oracle_prev,
            budget, requests, oracle_line, history>>

\* the variables of the opening walk, of the database and of the user's tier
apart == <<walk, store, sessions, account>>

\* what only the repeated and the concurrent calls change
beyond == <<oracle_line, history, tasks, processes, sent, walk, store, sessions, account>>

\* ------------------------------------------------------------------ bounds
\* longest mainline of a game analysed ply by ply
MaxPlies == 2
\* longest game handed to the phase segmentation
MaxTotal == 62
\* largest centipawn loss handed to the classifiers
MaxLoss == 320
\* number of analyze_game calls made one after the other on the same objects
MaxCalls == 2
\* number of analyze_game calls in flight at the same time
MaxTasks == 2
\* longest game handed to the opening walk
MaxGame == 22
\* number of requests that work on the analysis of one game in the database
MaxRuns == 3
\* number of TierService calls made for one user
MaxOps == 8

\* ------------------------------------------------------------- vocabulary
WHITE == "white"
BLACK == "black"
\* Python's None, where an object is expected
None == [none |-> TRUE]
\* no exception
NoError == "none"
NoMove == -1

Other(turn) == IF turn = WHITE THEN BLACK ELSE WHITE

Max(a, b) == IF a >= b THEN a ELSE b
Min(a, b) == IF a <= b THEN a ELSE b
Abs(a) == IF a >= 0 THEN a ELSE -a

Classifications ==
    <<"brilliant", "great", "best", "excellent", "good", "inaccuracy", "mistake", "blunder">>

\* position of a tag in the ordered enumeration (1 = most favourable)
Rank(tag) == CHOOSE i \in 1..Len(Classifications) : Classifications[i] = tag

RECURSIVE SumAbsChange(_)
SumAbsChange(evs) ==
    IF evs = <<>> THEN 0
    ELSE Abs(Head(evs).evaluation_change) + SumAbsChange(Tail(evs))

\* whether a tag occurs, in place of how often
CountTagOnce(recs, tag) ==
    IF \E i \in 1..Len(recs) : recs[i].classification = tag THEN 1 ELSE 0

CountTag(recs, tag) == Len(SelectSeq(recs, LAMBDA m : m.classification = tag))

\* ------------------------------------------------------------- the oracle
\* What the engine thinks of a position, from White's point of view: a
\* centipawn value or a mate distance, and the move it prefers there.
CpValues == {-400, 0, 400}
MateValues == {-1, 1}

OracleScores ==
    [type : {"cp"}, white : CpValues] \cup [type : {"mate"}, white : MateValues]

\* an analysis info without a "score" entry
NoScore == [type |-> "none", white |-> 0]

\* the engine's preferred move in the position reached after k plies: the
\* move the game goes on with (k + 1), another move (0), or none.  It is never
\* the move that led to the position: that move's origin square is empty now.
BestMoves(k) == {k + 1, 0, NoMove}

\* A fixed oracle line: the evaluation after k plies is, from White's side,
\* -400 on every period-th ply and 0 otherwise.
LineAnswer(period, k) ==
    [type |-> "cp", white |-> IF period > 0 /\ k % period = 0 THEN -400 ELSE 0]

LinePeriods == {0, 2, 3}

\* oracle_line is FreeOracle when every request draws its answer afresh, and
\* a period when the oracle is the deterministic one that follows LineAnswer,
\* always starts, always answers and prefers a move that is not the game's.
FreeOracle == -1
ScoresAt(line, k) == IF line = FreeOracle THEN OracleScores ELSE {LineAnswer(line, k)}
Unscored(line) == IF line = FreeOracle THEN {NoScore} ELSE {}
BestAt(line, k) == IF line = FreeOracle THEN BestMoves(k) ELSE {0}
EngineStarts(line) == IF line = FreeOracle THEN BOOLEAN ELSE {TRUE}
Conventions(line) == IF line = FreeOracle THEN {"white", "side"} ELSE {"white"}

\* what an await on the engine can raise instead of an answer: the engine
\* process died, or the task running the call was cancelled
OracleErrors == {"EngineTerminatedError", "CancelledError"}

\* the score as seen by the side to move (chess.engine.PovScore.relative)
Relative(score, turn) == IF turn = WHITE THEN score.white ELSE -score.white

\* ------------------------------------------------------ the PGN parser
\* chess.pgn.read_game: None when the input holds no game; otherwise a Game
\* whose mainline is the moves read before the first token that cannot be
\* played (the error is logged in Game.errors and the rest is skipped).
Movetexts ==
    [empty : {TRUE}, plies : {0}, bad : {FALSE}, startTurn : {WHITE}]
    \cup { t \in [empty : {FALSE}, plies : 0..MaxPlies, bad : BOOLEAN, startTurn : {WHITE, BLACK}] :
             t.plies + (IF t.bad THEN 1 ELSE 0) <= MaxPlies }

read_game(text) ==
    IF text.empty THEN None
    ELSE [plies |-> text.plies, startTurn |-> text.startTurn,
          errors |-> IF text.bad THEN 1 ELSE 0]

\* ChessAnalyzer.parse_pgn
parse_pgn(pgn_string) == read_game(pgn_string)

\* ------------------------------------------- ChessAnalysisService helpers
\* _score_to_centipawns(score, turn): score is the PovScore of the analysed
\* position, [type, relative]; the turn argument is not used by the code.
_score_to_centipawns(score, turn) ==
    IF score.type = "mate"
    THEN (IF score.relative > 0 THEN 10000 ELSE -10000)
    ELSE score.relative

\* the table with its upper bounds taken as exclusive
_classify_move_exclusive(centipawn_loss) ==
    IF centipawn_loss < 10 THEN "best"
    ELSE IF centipawn_loss < 25 THEN "excellent"
    ELSE IF centipawn_loss < 50 THEN "good"
    ELSE IF centipawn_loss < 100 THEN "inaccuracy"
    ELSE IF centipawn_loss < 300 THEN "mistake"
    ELSE "blunder"

_classify_move(centipawn_loss) ==
    IF centipawn_loss <= 10 THEN "best"
    ELSE IF centipawn_loss <= 25 THEN "excellent"
    ELSE IF centipawn_loss <= 50 THEN "good"
    ELSE IF centipawn_loss <= 100 THEN "inaccuracy"
    ELSE IF centipawn_loss <= 300 THEN "mistake"
    ELSE "blunder"

\* ---------------------------------------------------- ChessAnalyzer helpers
thresholds ==
    [brilliant |-> -50, great |-> -25, best |-> 0, excellent |-> 25,
     good |-> 50, inaccuracy |-> 100, mistake |-> 200, blunder |-> 300]

\* classify_move with a strict first comparison
classify_move_strict(evaluation_change, is_best_move) ==
    IF is_best_move \/ evaluation_change > thresholds.best THEN "best"
    ELSE IF evaluation_change >= thresholds.excellent THEN "excellent"
    ELSE IF evaluation_change >= thresholds.good THEN "good"
    ELSE IF evaluation_change >= thresholds.inaccuracy THEN "inaccuracy"
    ELSE IF evaluation_change >= thresholds.mistake THEN "mistake"
    ELSE "blunder"

classify_move(evaluation_change, is_best_move) ==
    IF is_best_move \/ evaluation_change >= thresholds.best THEN "best"
    ELSE IF evaluation_change >= thresholds.excellent THEN "excellent"
    ELSE IF evaluation_change >= thresholds.good THEN "good"
    ELSE IF evaluation_change >= thresholds.inaccuracy THEN "inaccuracy"
    ELSE IF evaluation_change >= thresholds.mistake THEN "mistake"
    ELSE "blunder"

\* create_phase with a window that includes its end
create_phase_inclusive(name, start, end, evs) ==
    LET phase_moves == SelectSeq(evs, LAMBDA ev : start <= ev.move_number /\ ev.move_number <= end)
    IN [name |-> name,
        move_start |-> start,
        move_end |-> end,
        acpl_sum |-> SumAbsChange(phase_moves),
        acpl_den |-> Max(Len(phase_moves), 1),
        moves |-> phase_moves,
        key_positions |-> SelectSeq(phase_moves, LAMBDA ev : Abs(ev.evaluation_change) > 100)]

RECURSIVE SumChange(_)
SumChange(evs) ==
    IF evs = <<>> THEN 0
    ELSE Head(evs).evaluation_change + SumChange(Tail(evs))

\* create_phase averaging the signed changes
create_phase_signed(name, start, end, evs) ==
    LET phase_moves == SelectSeq(evs, LAMBDA ev : start <= ev.move_number /\ ev.move_number < end)
    IN [name |-> name,
        move_start |-> start,
        move_end |-> end,
        acpl_sum |-> SumChange(phase_moves),
        acpl_den |-> Max(Len(phase_moves), 1),
        moves |-> phase_moves,
        key_positions |-> SelectSeq(phase_moves, LAMBDA ev : Abs(ev.evaluation_change) > 100)]

\* create_phase of determine_game_phases; acpl is kept as the fraction
\* acpl_sum / acpl_den the code divides out
create_phase(name, start, end, evs) ==
    LET phase_moves == SelectSeq(evs, LAMBDA ev : start <= ev.move_number /\ ev.move_number < end)
    IN [name |-> name,
        move_start |-> start,
        move_end |-> end,
        acpl_sum |-> SumAbsChange(phase_moves),
        acpl_den |-> Max(Len(phase_moves), 1),
        moves |-> phase_moves,
        key_positions |-> SelectSeq(phase_moves, LAMBDA ev : Abs(ev.evaluation_change) > 100)]

\* the opening taken as the first quarter of the game
opening_end_quarter(total_moves) == Min(20, total_moves \div 4)

opening_end(total_moves) == Min(20, total_moves \div 3)
endgame_start(total_moves) == Max(opening_end(total_moves) + 10, (total_moves * 2) \div 3)

determine_game_phases(total_moves, evs) ==
    [opening |-> create_phase("opening", 1, opening_end(total_moves), evs),
     middlegame |-> create_phase("middlegame", opening_end(total_moves), endgame_start(total_moves), evs),
     endgame |-> create_phase("endgame", endgame_start(total_moves), total_moves + 1, evs)]

\* the filter of analyze_game: the user's moves by move-number parity
user_moves_of(evs, color) ==
    IF color = WHITE
    THEN SelectSeq(evs, LAMBDA ev : ev.move_number % 2 = 1)
    ELSE SelectSeq(evs, LAMBDA ev : ev.move_number % 2 = 0)

\* the tail of ChessAnalyzer.analyze_game: filter, statistics, phases, result
AnalysisResult(evs, color) ==
    LET user_moves == user_moves_of(evs, color)
        opponent_moves == SelectSeq(evs, LAMBDA ev : \A i \in 1..Len(user_moves) : user_moves[i] # ev)
        phases == determine_game_phases(Len(evs), user_moves)
    IN [user_color |-> color,
        total_moves |-> Len(user_moves),
        user_acpl_sum |-> SumAbsChange(user_moves),
        user_acpl_den |-> Max(Len(user_moves), 1),
        opponent_acpl_sum |-> SumAbsChange(opponent_moves),
        opponent_acpl_den |-> Max(Len(opponent_moves), 1),
        brilliant_moves |-> CountTag(user_moves, "brilliant"),
        great_moves |-> CountTag(user_moves, "great"),
        best_moves |-> CountTag(user_moves, "best"),
        excellent_moves |-> CountTag(user_moves, "excellent"),
        good_moves |-> CountTag(user_moves, "good"),
        inaccuracies |-> CountTag(user_moves, "inaccuracy"),
        mistakes |-> CountTag(user_moves, "mistake"),
        blunders |-> CountTag(user_moves, "blunder"),
        opening_phase |-> phases.opening,
        middlegame_phase |-> phases.middlegame,
        endgame_phase |-> phases.endgame,
        evaluations |-> user_moves,
        critical_positions |-> SelectSeq(user_moves, LAMBDA ev : Abs(ev.evaluation_change) > 150),
        blunder_moves |-> SelectSeq(user_moves, LAMBDA ev : ev.classification = "blunder")]

\* ------------------------------------------------------------------ state
\* depth: int = 15, time_limit: float = 1.0; STOCKFISH_DEPTH, STOCKFISH_TIME
DefaultBudget == [depth |-> 15, time_limit |-> 1]
\* the budgets a caller passes: the default, and the two with a field at zero
Budgets == {DefaultBudget, [depth |-> 0, time_limit |-> 1], [depth |-> 15, time_limit |-> 0]}

\* a call of the concurrent runs before it has started
IdleTask ==
    [pc |-> "idle", impl |-> "none", engine |-> 0, asked |-> 0,
     pgn |-> [empty |-> TRUE, plies |-> 0, bad |-> FALSE, startTurn |-> WHITE]]

\* extract_opening_info not yet called
IdleWalk == [pc |-> "idle", plies |-> 0, trade |-> 0, node |-> 0, opening_moves |-> 0]

\* the game in the committed database: imported, not analysed; `rows` holds the
\* ids of its GameAnalysis rows, `ids` the number of rows ever inserted
NewStore == [is_analyzed |-> FALSE, rows |-> {}, ids |-> 0]

\* a request whose database session is not open yet
IdleSession ==
    [pc |-> "idle", kind |-> "none", game_is_analyzed |-> FALSE, existing |-> 0,
     wrote |-> FALSE]

\* a user as the columns' defaults make it: tier free, 0 of 5 analyses used,
\* trial_exhausted_at 0 for None; `now` is the clock, `last` the last call
NewAccount ==
    [tier |-> "free", ai_analyses_used |-> 0, ai_analyses_limit |-> 5,
     trial_exhausted_at |-> 0, now |-> 0,
     last |-> [op |-> "none", ret |-> FALSE, tier |-> "free", used |-> 0]]

Idle ==
    /\ pc = "idle"
    /\ impl = "none"
    /\ pgn = [empty |-> TRUE, plies |-> 0, bad |-> FALSE, startTurn |-> WHITE]
    /\ user_color = WHITE
    /\ pov = "side"
    /\ engine = "not_started"
    /\ game = None
    /\ board = [turn |-> WHITE, pushed |-> 0]
    /\ info_before = [score |-> NoScore, pv |-> NoMove]
    /\ prev_eval_cp = 0
    /\ oracle_prev = [score |-> NoScore, best |-> NoMove]
    /\ move_number = 0
    /\ move_data = <<>>
    /\ evaluations = <<>>
    /\ total_centipawn_loss = 0
    /\ move_count = 0
    /\ result = None
    /\ raised = NoError
    /\ call = None
    /\ budget = DefaultBudget
    /\ requests = <<>>
    /\ history = <<>>
    /\ tasks = [t \in 1..MaxTasks |-> IdleTask]
    /\ processes = <<>>
    /\ sent = {}
    /\ walk = IdleWalk
    /\ store = NewStore
    /\ sessions = [r \in 1..MaxRuns |-> IdleSession]
    /\ account = NewAccount

Init == Idle /\ oracle_line = FreeOracle

\* chess.Board.ply() of a game whose starting position has fullmove number 1
BoardPly(b, g) == b.pushed + (IF g.startTurn = BLACK THEN 1 ELSE 0)

\* the call is over: it has returned or raised
Ended == pc \in {"done", "raised"}
\* the call has started an oracle process (which runs, was quit, or died)
EngineWasStarted == engine \in {"running", "quit", "crashed"}

\* -------------------------------------- ChessAnalysisService.analyze_game
\* One entry of `requests`: an evaluation asked of the oracle, for the
\* position after `position` plies, on behalf of ply `ply`, before or after
\* its move, with the depth asked for and whether a score came back.
Request(ply, side, position, depth, scored) ==
    [ply |-> ply, side |-> side, position |-> position, depth |-> depth, scored |-> scored]

\* a new call: the text and the budget are the caller's; there is no engine
\* handle yet and nothing has been returned or raised.  A budget other than
\* the default is tried on the games shorter than MaxPlies, with the free oracle.
SvcCall ==
    /\ pc = "idle"
    /\ \E text \in Movetexts, b \in Budgets :
         /\ b = DefaultBudget \/ (oracle_line = FreeOracle /\ text.plies < MaxPlies)
         /\ pgn' = text
         /\ budget' = b
    /\ impl' = "service"
    /\ engine' = "not_started"
    /\ result' = None
    /\ raised' = NoError
    /\ requests' = <<>>
    /\ pc' = "svc_popen"
    /\ UNCHANGED <<user_color, pov, game, board, info_before, prev_eval_cp,
                   move_number, move_data, evaluations, total_centipawn_loss,
                   move_count, call, oracle_prev, beyond>>

\* engine = await chess.engine.popen_uci(...); FileNotFoundError becomes ValueError
SvcPopen ==
    /\ pc = "svc_popen"
    /\ \E found \in EngineStarts(oracle_line) :
         IF found
         THEN engine' = "running" /\ pc' = "svc_parse" /\ raised' = raised
         ELSE /\ engine' = "unavailable"
              /\ pc' = "raised"
              /\ raised' = "ValueError: Stockfish engine not found"
    /\ UNCHANGED <<impl, pgn, user_color, pov, game, board, info_before, prev_eval_cp,
                   move_number, move_data, evaluations, total_centipawn_loss,
                   move_count, result, call, oracle_prev, budget, requests, beyond>>

\* move_data = []; total_centipawn_loss = 0; move_count = 0, with what a
\* call that did not set them afresh would go on from
loop_locals_kept ==
    [move_data |-> move_data, total_centipawn_loss |-> total_centipawn_loss,
     move_count |-> move_count]

loop_locals == [move_data |-> <<>>, total_centipawn_loss |-> 0, move_count |-> 0]

\* game = chess.pgn.read_game(...); if not game: raise ValueError;
\* board = game.board(); the locals of the loop
SvcParse ==
    /\ pc = "svc_parse"
    /\ game' = read_game(pgn)
    /\ IF game' = None
       THEN /\ pc' = "raised"
            /\ raised' = "ValueError: Invalid PGN"
            /\ UNCHANGED <<board, move_data, total_centipawn_loss, move_count>>
       ELSE /\ pc' = "svc_before"
            /\ raised' = raised
            /\ board' = [turn |-> game'.startTurn, pushed |-> 0]
            /\ move_data' = loop_locals.move_data
            /\ total_centipawn_loss' = loop_locals.total_centipawn_loss
            /\ move_count' = loop_locals.move_count
    /\ UNCHANGED <<impl, pgn, user_color, pov, engine, info_before, prev_eval_cp,
                   move_number, evaluations, result, call, oracle_prev,
                   budget, requests, beyond>>

\* the loop going on to the move without asking for the pre-move evaluation
SvcAnalyseBeforeSkipped ==
    /\ pc = "svc_before"
    /\ board.pushed < game.plies
    /\ pc' = "svc_after"
    /\ UNCHANGED <<impl, pgn, user_color, pov, engine, game, board, info_before, prev_eval_cp,
                   move_number, move_data, evaluations, total_centipawn_loss,
                   move_count, result, raised, call, oracle_prev, budget, requests, beyond>>

\* info_before = await engine.analyse(position_before, ...)
SvcAnalyseBefore ==
    /\ pc = "svc_before"
    /\ board.pushed < game.plies
    /\ \E answer \in ScoresAt(oracle_line, board.pushed) \cup Unscored(oracle_line),
          best \in BestAt(oracle_line, board.pushed) :
         /\ info_before' = [score |-> answer, pv |-> best]
         /\ requests' = Append(requests, Request(board.pushed + 1, "before", board.pushed,
                                                 budget.depth, answer # NoScore))
    /\ pc' = "svc_after"
    /\ UNCHANGED <<impl, pgn, user_color, pov, engine, game, board, prev_eval_cp,
                   move_number, move_data, evaluations, total_centipawn_loss,
                   move_count, result, raised, call, oracle_prev, budget, beyond>>

\* the PovScore python-chess hands out for an answer at a position
PovScore(answer, turn) == [type |-> answer.type, relative |-> Relative(answer, turn)]

\* the move record of one ply (lines 85-111); oracle_before, oracle_after and
\* mover keep what the oracle said and who moved
SvcRecord(position_before, board_after, g, before, after) ==
    LET move == position_before.pushed + 1
        cp_before == _score_to_centipawns(PovScore(before.score, position_before.turn), position_before.turn)
        cp_after == _score_to_centipawns(PovScore(after, board_after.turn), board_after.turn)
        cp_loss == Max(0, cp_before - cp_after)
    IN [move |-> move,
        ply |-> BoardPly(board_after, g),
        centipawn_loss |-> cp_loss,
        classification |-> _classify_move(cp_loss),
        best_move |-> before.pv,
        evaluation |-> cp_after,
        mover |-> position_before.turn,
        oracle_before |-> before.score,
        oracle_after |-> after]

\* board.push(move); info_after = await engine.analyse(board, ...); record
SvcAnalyseAfter ==
    /\ pc = "svc_after"
    /\ board' = [turn |-> Other(board.turn), pushed |-> board.pushed + 1]
    /\ \E answer \in ScoresAt(oracle_line, board.pushed + 1) \cup Unscored(oracle_line) :
         /\ requests' = Append(requests, Request(board.pushed + 1, "after", board.pushed + 1,
                                                 budget.depth, answer # NoScore))
         /\ IF info_before.score # NoScore /\ answer # NoScore
            THEN LET rec == SvcRecord(board, board', game, info_before, answer)
                 IN /\ move_data' = Append(move_data, rec)
                    /\ total_centipawn_loss' = total_centipawn_loss + rec.centipawn_loss
                    /\ move_count' = move_count + 1
            ELSE UNCHANGED <<move_data, total_centipawn_loss, move_count>>
    /\ pc' = "svc_before"
    /\ UNCHANGED <<impl, pgn, user_color, pov, engine, game, info_before, prev_eval_cp,
                   move_number, evaluations, result, raised, call, oracle_prev,
                   budget, beyond>>

\* an await engine.analyse(...) of the loop raises: the exception reaches
\* `except Exception as e: ... raise` and leaves the call; nothing on that
\* path touches the engine
SvcAnalyseRaises ==
    /\ oracle_line = FreeOracle
    /\ \/ pc = "svc_before" /\ board.pushed < game.plies /\ board' = board
       \/ pc = "svc_after" /\ board' = [turn |-> Other(board.turn), pushed |-> board.pushed + 1]
    /\ \E error \in OracleErrors : raised' = error
    /\ requests' = Append(requests, Request(board.pushed + 1,
                                            IF pc = "svc_before" THEN "before" ELSE "after",
                                            board'.pushed, budget.depth, FALSE))
    /\ pc' = "raised"
    /\ UNCHANGED <<impl, pgn, user_color, pov, engine, game, info_before, prev_eval_cp,
                   move_number, move_data, evaluations, total_centipawn_loss,
                   move_count, result, call, oracle_prev, budget, beyond>>

\* the result dictionary (lines 117-142); the average and the accuracy are
\* kept as fractions over average_den and 10 * average_den
SvcResult(moves, total, count) ==
    LET den == IF count > 0 THEN count ELSE 1
    IN [average_num |-> total,
        average_den |-> den,
        accuracy_num |-> Max(0, Min(1000 * den, 1000 * den - total)),
        accuracy_den |-> 10 * den,
        move_classifications |->
            [tag \in {Classifications[i] : i \in 1..Len(Classifications)} |-> CountTag(moves, tag)],
        moves |-> moves,
        total_moves |-> count]

\* await engine.quit(); metrics; return
SvcFinish ==
    /\ pc = "svc_before"
    /\ board.pushed = game.plies
    /\ engine' = "quit"
    /\ result' = SvcResult(move_data, total_centipawn_loss, move_count)
    /\ pc' = "done"
    /\ UNCHANGED <<impl, pgn, user_color, pov, game, board, info_before, prev_eval_cp,
                   move_number, move_data, evaluations, total_centipawn_loss,
                   move_count, raised, call, oracle_prev, budget, requests, beyond>>

SvcNext ==
    \/ SvcCall \/ SvcPopen \/ SvcParse \/ SvcAnalyseBefore \/ SvcAnalyseAfter
    \/ SvcAnalyseRaises \/ SvcFinish

SvcSpec == Init /\ [][SvcNext]_vars

\* ------------------------------------------------ ChessAnalyzer.analyze_game
\* Stockfish.get_evaluation(): {'type', 'value'}.  The wrapper in use reports
\* the value from White's side (pov = "white"); an oracle that answers for
\* the side to move (pov = "side") is covered as well.
get_evaluation(answer, turn, p) ==
    [type |-> answer.type,
     value |-> IF p = "white" THEN answer.white ELSE Relative(answer, turn)]

\* current_eval.get('value', 0) if current_eval.get('type') == 'cp' else 0
EvalCp(ev) == IF ev.type = "cp" THEN ev.value ELSE 0

\* a new call; the depth and the time are the settings'
AnCall ==
    /\ pc = "idle"
    /\ \E text \in Movetexts : pgn' = text
    /\ \E color \in {WHITE, BLACK} : user_color' = color
    /\ \E p \in Conventions(oracle_line) : pov' = p
    /\ impl' = "analyzer"
    /\ budget' = DefaultBudget
    /\ engine' = "not_started"
    /\ result' = None
    /\ raised' = NoError
    /\ requests' = <<>>
    /\ pc' = "an_parse"
    /\ UNCHANGED <<game, board, info_before, prev_eval_cp,
                   move_number, move_data, evaluations, total_centipawn_loss,
                   move_count, call, oracle_prev, beyond>>

\* game = self.parse_pgn(pgn_string); if not game: return None
AnParse ==
    /\ pc = "an_parse"
    /\ game' = parse_pgn(pgn)
    /\ pc' = IF game' = None THEN "done" ELSE "an_engine"
    /\ UNCHANGED <<impl, pgn, user_color, pov, engine, board, info_before, prev_eval_cp,
                   move_number, move_data, evaluations, total_centipawn_loss,
                   move_count, result, raised, call, oracle_prev, budget, requests, beyond>>

\* stockfish = self._get_stockfish_engine(); RuntimeError: return None
AnEngine ==
    /\ pc = "an_engine"
    /\ \E started \in EngineStarts(oracle_line) :
         IF started
         THEN engine' = "running" /\ pc' = "an_init"
         ELSE engine' = "unavailable" /\ pc' = "done"
    /\ UNCHANGED <<impl, pgn, user_color, pov, game, board, info_before, prev_eval_cp,
                   move_number, move_data, evaluations, total_centipawn_loss,
                   move_count, result, raised, call, oracle_prev, budget, requests, beyond>>

\* board = game.board(); the evaluation of the initial position (lines 218-226)
AnInit ==
    /\ pc = "an_init"
    /\ board' = [turn |-> game.startTurn, pushed |-> 0]
    /\ \E answer \in ScoresAt(oracle_line, 0), best \in BestAt(oracle_line, 0) :
         /\ oracle_prev' = [score |-> answer, best |-> best]
         /\ prev_eval_cp' = EvalCp(get_evaluation(answer, game.startTurn, pov))
    /\ requests' = Append(requests, Request(1, "before", 0, budget.depth, TRUE))
    /\ evaluations' = <<>>
    /\ move_number' = 0
    /\ pc' = "an_loop"
    /\ UNCHANGED <<impl, pgn, user_color, pov, engine, game, info_before,
                   move_data, total_centipawn_loss, move_count, result, raised, call,
                   budget, beyond>>

\* one pass of the loop over game.mainline() (lines 228-274), for the move
\* played from board_before with the oracle's answer for the position after
\* it; the record and the value kept as prev_eval_cp.  pre_best, mover,
\* oracle_before and oracle_after keep what the oracle said and who moved.
AnMoveEvaluation(n, board_before, color, p, prev_cp, prev, answer, best) ==
    LET move == board_before.pushed + 1
        turn == Other(board_before.turn)
        current_eval == get_evaluation(answer, turn, p)
        flip == turn = BLACK
        current_eval_cp == IF flip THEN -EvalCp(current_eval) ELSE EvalCp(current_eval)
        prev_cp2 == IF flip THEN -prev_cp ELSE prev_cp
        change == current_eval_cp - prev_cp2
        eval_change == IF (color = WHITE /\ n % 2 = 1) \/ (color = BLACK /\ n % 2 = 0)
                       THEN -change ELSE change
        is_best == IF best # NoMove THEN move = best ELSE FALSE
    IN [move_number |-> n,
        move |-> move,
        evaluation |-> current_eval_cp,
        best_move |-> best,
        mate_in |-> IF current_eval.type = "mate" THEN current_eval.value ELSE 0,
        is_mate |-> current_eval.type = "mate",
        classification |-> classify_move(eval_change, is_best),
        evaluation_change |-> eval_change,
        mover |-> board_before.turn,
        pre_best |-> prev.best,
        oracle_before |-> prev.score,
        oracle_after |-> answer]

AnStep ==
    /\ pc = "an_loop"
    /\ board.pushed < game.plies
    /\ move_number' = move_number + 1
    /\ board' = [turn |-> Other(board.turn), pushed |-> board.pushed + 1]
    /\ \E answer \in ScoresAt(oracle_line, board.pushed + 1),
          best \in BestAt(oracle_line, board.pushed + 1) :
         LET rec == AnMoveEvaluation(move_number', board, user_color, pov,
                                     prev_eval_cp, oracle_prev, answer, best)
         IN /\ evaluations' = Append(evaluations, rec)
            /\ prev_eval_cp' = rec.evaluation
            /\ oracle_prev' = [score |-> answer, best |-> best]
    /\ requests' = Append(requests, Request(board.pushed + 1, "after", board.pushed + 1,
                                            budget.depth, TRUE))
    /\ UNCHANGED <<pc, impl, pgn, user_color, pov, engine, game, info_before,
                   move_data, total_centipawn_loss, move_count, result, raised, call,
                   budget, beyond>>

\* stockfish.get_evaluation() or get_best_move() raises because the engine
\* process has died (StockfishException): nothing in analyze_game catches it
AnRaises ==
    /\ oracle_line = FreeOracle
    /\ \/ pc = "an_init"
       \/ pc = "an_loop" /\ board.pushed < game.plies
    /\ raised' = "StockfishException"
    /\ engine' = "crashed"
    /\ pc' = "raised"
    /\ UNCHANGED <<impl, pgn, user_color, pov, game, board, info_before, prev_eval_cp,
                   move_number, move_data, evaluations, total_centipawn_loss,
                   move_count, result, call, oracle_prev, budget, requests, beyond>>

\* lines 276-333: the user's moves, the statistics, the phases, the result
AnFinish ==
    /\ pc = "an_loop"
    /\ board.pushed = game.plies
    /\ result' = AnalysisResult(evaluations, user_color)
    /\ pc' = "done"
    /\ UNCHANGED <<impl, pgn, user_color, pov, engine, game, board, info_before, prev_eval_cp,
                   move_number, move_data, evaluations, total_centipawn_loss,
                   move_count, raised, call, oracle_prev, budget, requests, beyond>>

AnNext == AnCall \/ AnParse \/ AnEngine \/ AnInit \/ AnStep \/ AnRaises \/ AnFinish

AnSpec == Init /\ [][AnNext]_vars

\* ------------------------------------------------------- either analyser
\* one analyze_game call, of the service or of the analyzer
AnalyseNext == SvcNext \/ AnNext

AnalyseSpec == Init /\ [][AnalyseNext]_vars

\* --------------------------------------------------------- the classifiers
\* the two classifiers applied to a loss drawn from the bounded range
ClassifyService ==
    /\ pc = "idle"
    /\ \E L \in 0..MaxLoss :
         call' = [op |-> "_classify_move", loss |-> L, is_best |-> FALSE,
                  ret |-> _classify_move(L)]
    /\ pc' = "returned"
    /\ UNCHANGED <<impl, pgn, user_color, pov, engine, game, board, info_before,
                   prev_eval_cp, move_number, move_data, evaluations,
                   total_centipawn_loss, move_count, result, raised, oracle_prev,
                   budget, requests, beyond>>

ClassifyAnalyzer ==
    /\ pc = "idle"
    /\ \E L \in (-MaxLoss)..MaxLoss, b \in BOOLEAN :
         call' = [op |-> "classify_move", loss |-> L, is_best |-> b,
                  ret |-> classify_move(L, b)]
    /\ pc' = "returned"
    /\ UNCHANGED <<impl, pgn, user_color, pov, engine, game, board, info_before,
                   prev_eval_cp, move_number, move_data, evaluations,
                   total_centipawn_loss, move_count, result, raised, oracle_prev,
                   budget, requests, beyond>>

ClassifyNext == ClassifyService \/ ClassifyAnalyzer

ClassifySpec == Init /\ [][ClassifyNext]_vars

\* ------------------------------------------------------------- long games
\* The loop of ChessAnalyzer.analyze_game run to its end on a game of `total`
\* plies under a fixed oracle line (LineAnswer).
\* the side to move after k plies
TurnAfter(startTurn, k) == IF k % 2 = 0 THEN startTurn ELSE Other(startTurn)

LinePrev(period, k) == [score |-> LineAnswer(period, k), best |-> 0]

\* prev_eval_cp after k passes of the loop: the initial evaluation, or the
\* evaluation field of the k-th record (which does not depend on the pass
\* before it)
LinePrevCp(k, startTurn, color, p, period) ==
    IF k = 0
    THEN EvalCp(get_evaluation(LineAnswer(period, 0), startTurn, p))
    ELSE AnMoveEvaluation(k, [turn |-> TurnAfter(startTurn, k - 1), pushed |-> k - 1], color, p,
                          0, LinePrev(period, k - 1), LineAnswer(period, k), 0).evaluation

PlayedOut(total, startTurn, color, p, period) ==
    [evs |-> [k \in 1..total |->
                AnMoveEvaluation(k, [turn |-> TurnAfter(startTurn, k - 1), pushed |-> k - 1], color, p,
                                 LinePrevCp(k - 1, startTurn, color, p, period),
                                 LinePrev(period, k - 1), LineAnswer(period, k), 0)],
     turn |-> TurnAfter(startTurn, total),
     prev_cp |-> LinePrevCp(total, startTurn, color, p, period),
     prev |-> LinePrev(period, total)]

LongGameInit ==
    \E total \in 0..MaxTotal, startTurn \in {WHITE, BLACK}, color \in {WHITE, BLACK},
       period \in LinePeriods :
        LET played == PlayedOut(total, startTurn, color, "white", period)
        IN /\ pc = "an_loop"
           /\ impl = "analyzer"
           /\ pgn = [empty |-> FALSE, plies |-> total, bad |-> FALSE, startTurn |-> startTurn]
           /\ user_color = color
           /\ pov = "white"
           /\ engine = "running"
           /\ game = [plies |-> total, startTurn |-> startTurn, errors |-> 0]
           /\ board = [turn |-> played.turn, pushed |-> total]
           /\ info_before = [score |-> NoScore, pv |-> NoMove]
           /\ prev_eval_cp = played.prev_cp
           /\ oracle_prev = played.prev
           /\ move_number = total
           /\ move_data = <<>>
           /\ evaluations = played.evs
           /\ total_centipawn_loss = 0
           /\ move_count = 0
           /\ result = None
           /\ raised = NoError
           /\ call = None
           /\ budget = DefaultBudget
           /\ requests = <<>>
           /\ oracle_line = period
           /\ history = <<>>
           /\ tasks = [t \in 1..MaxTasks |-> IdleTask]
           /\ processes = <<>>
           /\ sent = {}
           /\ walk = IdleWalk
           /\ store = NewStore
           /\ sessions = [r \in 1..MaxRuns |-> IdleSession]
           /\ account = NewAccount

LongGameNext == AnFinish

LongGameSpec == LongGameInit /\ [][LongGameNext]_vars

\* ---------------------------------------------------------- calls in a row
\* analyze_game called again and again on the same objects against the
\* deterministic oracle.  What a call was given and how it ended:
CallInput ==
    [impl |-> impl,
     pgn |-> pgn,
     color |-> IF impl = "analyzer" THEN user_color ELSE "none",
     convention |-> IF impl = "analyzer" THEN pov ELSE "none",
     budget |-> budget]
CallOutcome == [result |-> result, raised |-> raised]

\* the call is over and its caller has the outcome; the next call finds
\* everything as this one left it
Return ==
    /\ Ended
    /\ Len(history) < MaxCalls
    /\ history' = Append(history, [input |-> CallInput, outcome |-> CallOutcome])
    /\ pc' = IF Len(history') < MaxCalls THEN "idle" ELSE "stopped"
    /\ UNCHANGED <<impl, pgn, user_color, pov, engine, game, board, info_before,
                   prev_eval_cp, move_number, move_data, evaluations,
                   total_centipawn_loss, move_count, result, raised, call, oracle_prev,
                   budget, requests, oracle_line, tasks, processes, sent, apart>>

\* the oracle follows a line on which the evaluation changes
RepeatInit == Idle /\ oracle_line \in LinePeriods \ {0}

RepeatNext ==
    \/ SvcCall \/ SvcPopen \/ SvcParse \/ SvcAnalyseBefore \/ SvcAnalyseAfter \/ SvcFinish
    \/ AnCall \/ AnParse \/ AnEngine \/ AnInit \/ AnStep \/ AnFinish
    \/ Return

RepeatSpec == RepeatInit /\ [][RepeatNext]_vars

\* ------------------------------------------------------------ calls at once
\* Several analyze_game calls in flight at the same time (one asyncio.run per
\* background task; ChessAnalyzer calls on the module's one chess_analyzer),
\* each reduced to what it does with oracle processes.  `processes` is every
\* oracle process started so far with the call that started it, tasks[t].engine
\* is the handle call t holds (0: none), and `sent` is which call has asked
\* which process for an evaluation.

\* every call is handed the one engine that was started first
popen_uci_shared(procs, t) ==
    IF procs = <<>> THEN <<[owner |-> t, state |-> "running"]>> ELSE procs

\* chess.engine.popen_uci(path), Stockfish(path=...): a new process
popen_uci(procs, t) == Append(procs, [owner |-> t, state |-> "running"])

\* the texts given to the calls in flight: empty, or a game without errors
ConcTexts == {text \in Movetexts : text.startTurn = WHITE /\ ~text.bad}

\* the evaluations a call asks for: two for every ply in the service, the
\* initial position and one for every ply in the analyzer
Evaluations(task) ==
    IF task.impl = "service" THEN 2 * task.pgn.plies ELSE task.pgn.plies + 1

ConcCall(t) ==
    /\ tasks[t].pc = "idle"
    /\ \E text \in ConcTexts, kind \in {"service", "analyzer"} :
         tasks' = [tasks EXCEPT ![t] =
                     [pc |-> IF kind = "service" THEN "popen" ELSE "parse",
                      impl |-> kind, engine |-> 0, asked |-> 0, pgn |-> text]]
    /\ UNCHANGED <<processes, sent>>
    /\ UNCHANGED <<single, apart>>

\* the service starts its engine before it parses, the analyzer after
ConcPopen(t) ==
    /\ tasks[t].pc = "popen"
    /\ \E found \in BOOLEAN :
         IF found
         THEN /\ processes' = popen_uci(processes, t)
              /\ tasks' = [tasks EXCEPT ![t].engine = Len(processes'),
                                        ![t].pc = IF tasks[t].impl = "service"
                                                  THEN "parse" ELSE "analyse"]
         ELSE /\ processes' = processes
              /\ tasks' = [tasks EXCEPT ![t].pc = "ended"]
    /\ sent' = sent
    /\ UNCHANGED <<single, apart>>

ConcParse(t) ==
    /\ tasks[t].pc = "parse"
    /\ tasks' = [tasks EXCEPT ![t].pc =
                    IF read_game(tasks[t].pgn) = None THEN "ended"
                    ELSE IF tasks[t].impl = "service" THEN "analyse" ELSE "popen"]
    /\ UNCHANGED <<processes, sent>>
    /\ UNCHANGED <<single, apart>>

\* engine.analyse(...), stockfish.get_evaluation(): a request to the process
\* behind the call's handle
ConcAnalyse(t) ==
    /\ tasks[t].pc = "analyse"
    /\ tasks[t].asked < Evaluations(tasks[t])
    /\ sent' = sent \cup {[task |-> t, process |-> tasks[t].engine]}
    /\ tasks' = [tasks EXCEPT ![t].asked = tasks[t].asked + 1]
    /\ processes' = processes
    /\ UNCHANGED <<single, apart>>

\* the service quits its engine; the analyzer returns with its Stockfish
\* object still alive
ConcFinish(t) ==
    /\ tasks[t].pc = "analyse"
    /\ tasks[t].asked = Evaluations(tasks[t])
    /\ tasks' = [tasks EXCEPT ![t].pc = "ended"]
    /\ processes' = IF tasks[t].impl = "service"
                    THEN [processes EXCEPT ![tasks[t].engine].state = "quit"]
                    ELSE processes
    /\ sent' = sent
    /\ UNCHANGED <<single, apart>>

ConcNext ==
    \E t \in 1..MaxTasks :
        ConcCall(t) \/ ConcPopen(t) \/ ConcParse(t) \/ ConcAnalyse(t) \/ ConcFinish(t)

ConcSpec == Init /\ [][ConcNext]_vars

\* -------------------------------------- ChessAnalyzer.extract_opening_info
\* A game is taken as its number of plies and the first ply after which the
\* board holds fewer than 30 pieces (plies + 1: no such ply in the game);
\* three captures take six plies at least, and pieces do not come back.
\* len(board.piece_map()) < 30 on the board of the node after k plies
PiecesTraded(w, k) == k >= w.trade

\* the game, its headers and the walk's two locals
OpeningCall ==
    /\ walk.pc = "idle"
    /\ \E n \in 0..MaxGame, d \in 6..(MaxGame + 1) :
         /\ d <= n + 1
         /\ walk' = [pc |-> "walking", plies |-> n, trade |-> d, node |-> 0, opening_moves |-> 0]
    /\ UNCHANGED <<single, tasks, processes, sent, store, sessions, account>>

\* one pass of `while node.variations and opening_moves < 20`
OpeningStep ==
    /\ walk.pc = "walking"
    /\ walk.node < walk.plies
    /\ walk.opening_moves < 20
    /\ walk' = [walk EXCEPT !.node = walk.node + 1,
                            !.opening_moves = walk.opening_moves + 1,
                            !.pc = IF walk.opening_moves + 1 >= 10
                                      /\ PiecesTraded(walk, walk.node + 1)
                                   THEN "broken" ELSE "walking"]
    /\ UNCHANGED <<single, tasks, processes, sent, store, sessions, account>>

\* return opening_name, eco_code, min(opening_moves, 15)
OpeningReturn ==
    /\ \/ walk.pc = "broken"
       \/ walk.pc = "walking" /\ ~(walk.node < walk.plies /\ walk.opening_moves < 20)
    /\ walk' = [pc |-> "returned", plies |-> walk.plies, trade |-> walk.trade,
                node |-> walk.node, opening_moves |-> Min(walk.opening_moves, 15)]
    /\ UNCHANGED <<single, tasks, processes, sent, store, sessions, account>>

OpeningNext == OpeningCall \/ OpeningStep \/ OpeningReturn

OpeningSpec == Init /\ [][OpeningNext]_vars

\* ------------------------------------- analyses in the database (api/analysis)
\* Each request r works in a session of its own (SessionLocal(), autoflush off);
\* `store` is what is committed. A session keeps the Game it loaded: the flag
\* it read is `game_is_analyzed`, and an assignment of the value already loaded
\* is no change and writes nothing at commit.

\* the first GameAnalysis row of the game, 0 for None
FirstRow(x) == IF store.rows = {} THEN x = 0 ELSE x \in store.rows

\* analyze_game_background: db = SessionLocal(); game = db.query(Game)...first()
BgLoad(r) ==
    /\ sessions[r].pc = "idle"
    /\ sessions' = [sessions EXCEPT ![r] =
           [@ EXCEPT !.pc = "loaded", !.kind = "analyse",
                     !.game_is_analyzed = store.is_analyzed]]
    /\ UNCHANGED <<single, tasks, processes, sent, walk, store, account>>

\* await analyzer.analyze_game(...): a result, or an exception caught at line
\* 144, which rolls the session back
BgAnalyse(r) ==
    /\ sessions[r].pc = "loaded"
    /\ sessions[r].kind = "analyse"
    /\ \E ok \in BOOLEAN :
          sessions' = [sessions EXCEPT ![r] =
              [@ EXCEPT !.pc = IF ok THEN "analysed" ELSE "failed"]]
    /\ UNCHANGED <<single, tasks, processes, sent, walk, store, account>>

\* existing_analysis = db.query(GameAnalysis).filter(game_id == ...).first()
BgQuery(r) ==
    /\ sessions[r].pc = "analysed"
    /\ \E x \in 0..MaxRuns :
          /\ FirstRow(x)
          /\ sessions' = [sessions EXCEPT ![r] =
                 [@ EXCEPT !.pc = "queried", !.existing = x]]
    /\ UNCHANGED <<single, tasks, processes, sent, walk, store, account>>

\* the row is updated or added, game.is_analyzed = True, db.commit(). The
\* INSERT fails on the unique game_id when the game has a row by now, the
\* UPDATE fails when its row is gone (an UPDATE is written only if a column
\* got a new value); either failure is caught and rolled back.
BgCommit(r) ==
    /\ sessions[r].pc = "queried"
    /\ sessions[r].kind = "analyse"
    /\ \E changed \in BOOLEAN :
          LET s == sessions[r]
              insert == s.existing = 0
              IntegrityError == insert /\ store.rows # {}
              StaleDataError == ~insert /\ changed /\ s.existing \notin store.rows
              written ==
                  [is_analyzed |-> IF s.game_is_analyzed THEN store.is_analyzed ELSE TRUE,
                   rows |-> IF insert THEN store.rows \cup {store.ids + 1} ELSE store.rows,
                   ids |-> IF insert THEN store.ids + 1 ELSE store.ids]
          IN  /\ insert => changed
              /\ IF IntegrityError \/ StaleDataError
                 THEN /\ store' = store
                      /\ sessions' = [sessions EXCEPT ![r] = [@ EXCEPT !.pc = "failed"]]
                 ELSE /\ store' = written
                      /\ sessions' = [sessions EXCEPT ![r] =
                             [@ EXCEPT !.pc = "done", !.wrote = written # store]]
    /\ UNCHANGED <<single, tasks, processes, sent, walk, account>>

\* delete_game_analysis: the row is looked up (404 without one) and the game
\* is loaded
DelQuery(r) ==
    /\ sessions[r].pc = "idle"
    /\ \E x \in 0..MaxRuns :
          /\ FirstRow(x)
          /\ sessions' = [sessions EXCEPT ![r] =
                 [@ EXCEPT !.pc = IF x = 0 THEN "done" ELSE "queried",
                           !.kind = "delete", !.existing = x,
                           !.game_is_analyzed = store.is_analyzed]]
    /\ UNCHANGED <<single, tasks, processes, sent, walk, store, account>>

\* game.is_analyzed = False; db.delete(analysis); db.commit(). A DELETE that
\* matches no row raises or only warns, as the library's version has it.
DelCommit(r) ==
    /\ sessions[r].pc = "queried"
    /\ sessions[r].kind = "delete"
    /\ \E raises \in BOOLEAN :
          LET s == sessions[r]
              gone == s.existing \notin store.rows
              written ==
                  [is_analyzed |-> IF s.game_is_analyzed THEN FALSE ELSE store.is_analyzed,
                   rows |-> store.rows \ {s.existing},
                   ids |-> store.ids]
          IN  /\ raises => gone
              /\ IF raises
                 THEN /\ store' = store
                      /\ sessions' = [sessions EXCEPT ![r] = [@ EXCEPT !.pc = "failed"]]
                 ELSE /\ store' = written
                      /\ sessions' = [sessions EXCEPT ![r] =
                             [@ EXCEPT !.pc = "done", !.wrote = written # store]]
    /\ UNCHANGED <<single, tasks, processes, sent, walk, account>>

DbNext ==
    \E r \in 1..MaxRuns :
        \/ BgLoad(r)
        \/ BgAnalyse(r)
        \/ BgQuery(r)
        \/ BgCommit(r)
        \/ DelQuery(r)
        \/ DelCommit(r)

DbSpec == Init /\ [][DbNext]_vars

\* ------------------------------------------------------------- TierService

FREE_AI_ANALYSIS_LIMIT == 5

\* user.is_pro
is_pro(user) == user.tier = "pro"

\* increment_ai_usage without its test of the limit
increment_ai_usage_unchecked(user) ==
    IF is_pro(user) THEN [user |-> user, ret |-> TRUE]
    ELSE LET used == user.ai_analyses_used + 1
             exhausted == used >= user.ai_analyses_limit /\ user.trial_exhausted_at = 0
         IN  [user |-> [user EXCEPT !.ai_analyses_used = used,
                                    !.trial_exhausted_at = IF exhausted THEN user.now + 1 ELSE @],
              ret |-> TRUE]

\* TierService.increment_ai_usage: the user after the call and the value returned
increment_ai_usage(user) ==
    IF is_pro(user) THEN [user |-> user, ret |-> TRUE]
    ELSE IF user.ai_analyses_used >= user.ai_analyses_limit
         THEN [user |-> user, ret |-> FALSE]
    ELSE LET used == user.ai_analyses_used + 1
             exhausted == used >= user.ai_analyses_limit /\ user.trial_exhausted_at = 0
         IN  [user |-> [user EXCEPT !.ai_analyses_used = used,
                                    !.trial_exhausted_at = IF exhausted THEN user.now + 1 ELSE @],
              ret |-> TRUE]

\* TierService.upgrade_to_pro
upgrade_to_pro(user) == [user EXCEPT !.tier = "pro", !.ai_analyses_limit = -1]

\* TierService.downgrade_to_free
downgrade_to_free(user, reset_trial) ==
    LET free == [user EXCEPT !.tier = "free", !.ai_analyses_limit = FREE_AI_ANALYSIS_LIMIT]
    IN  IF reset_trial
        THEN [free EXCEPT !.ai_analyses_used = 0, !.trial_exhausted_at = 0]
        ELSE free

\* the call is over: the clock moves on and the call is remembered
Called(user, op, ret) ==
    [user EXCEPT !.now = account.now + 1,
                 !.last = [op |-> op, ret |-> ret, tier |-> account.tier,
                           used |-> account.ai_analyses_used]]

TierIncrement ==
    /\ account.now < MaxOps
    /\ LET out == increment_ai_usage(account)
       IN  account' = Called(out.user, "increment", out.ret)
    /\ UNCHANGED <<single, tasks, processes, sent, walk, store, sessions>>

TierUpgrade ==
    /\ account.now < MaxOps
    /\ account' = Called(upgrade_to_pro(account), "upgrade", FALSE)
    /\ UNCHANGED <<single, tasks, processes, sent, walk, store, sessions>>

TierDowngrade ==
    /\ account.now < MaxOps
    /\ \E reset_trial \in BOOLEAN :
          account' = Called(downgrade_to_free(account, reset_trial), "downgrade", FALSE)
    /\ UNCHANGED <<single, tasks, processes, sent, walk, store, sessions>>

TierNext == TierIncrement \/ TierUpgrade \/ TierDowngrade

TierSpec == Init /\ [][TierNext]_vars

\* ------------------------------------------------------------------ claims
\* the move records of the result of a finished call, and their loss
Returned == pc = "done" /\ result # None
ResultRecords == IF impl = "service" THEN result.moves ELSE result.evaluations
LossOf(rec) == IF impl = "service" THEN rec.centipawn_loss ELSE rec.evaluation_change

\* the oracle's value of a position for the side `mover`
ForMover(answer, mover) == Relative(answer, mover)

\* the canonical table: the tag whose inclusive upper bound is the first one
\* that the loss does not exceed
UpperBounds == <<[tag |-> "best", upper |-> 10], [tag |-> "excellent", upper |-> 25],
                 [tag |-> "good", upper |-> 50], [tag |-> "inaccuracy", upper |-> 100],
                 [tag |-> "mistake", upper |-> 300]>>
TableTier(L) ==
    IF \A i \in 1..Len(UpperBounds) : L > UpperBounds[i].upper
    THEN "blunder"
    ELSE UpperBounds[CHOOSE i \in 1..Len(UpperBounds) :
                        /\ L <= UpperBounds[i].upper
                        /\ \A j \in 1..(i - 1) : L > UpperBounds[j].upper].tag

\* C1: in every result of analyze_game the per-move loss of every move record
\* (centipawn_loss of the service, evaluation_change of the analyzer) is >= 0.
C1_LossNeverNegative ==
    Returned => \A i \in 1..Len(ResultRecords) : LossOf(ResultRecords[i]) >= 0

\* C2: for every ply analysed by the service, with centipawn scores before
\* and after, the recorded loss is max(0, b - a), b and a being the oracle's
\* values of the pre-move and post-move positions for the side that moved.
C2_LossIsDropForMover ==
    (impl = "service") =>
        \A i \in 1..Len(move_data) :
            LET rec == move_data[i]
            IN (rec.oracle_before.type = "cp" /\ rec.oracle_after.type = "cp") =>
                  rec.centipawn_loss =
                      Max(0, ForMover(rec.oracle_before, rec.mover) - ForMover(rec.oracle_after, rec.mover))

\* C3: classify_move with a loss L >= 0 and is_best_move false returns the
\* tier of the canonical table (best <= 10 < excellent <= 25 < good <= 50 <
\* inaccuracy <= 100 < mistake <= 300 < blunder).
C3_AnalyzerFollowsTable ==
    (call # None /\ call.op = "classify_move" /\ call.loss >= 0 /\ ~call.is_best) =>
        call.ret = TableTier(call.loss)

\* C4: _classify_move maps every loss L >= 0 to the tier of the table with
\* inclusive upper bounds: 10, 25, 50, 100, 300 map to best, excellent, good,
\* inaccuracy, mistake, the value just above each to the next tier, and every
\* L > 300 to blunder.
C4_ServiceFollowsTable ==
    (call # None /\ call.op = "_classify_move") =>
        /\ call.ret = TableTier(call.loss)
        /\ \A i \in 1..Len(UpperBounds) :
              /\ call.loss = UpperBounds[i].upper => call.ret = UpperBounds[i].tag
              /\ call.loss = UpperBounds[i].upper + 1 =>
                    Rank(call.ret) = Rank(UpperBounds[i].tag) + 1
        /\ call.loss > 300 => call.ret = "blunder"

\* the service has classified a loss just above a boundary of the table
C4_Witness ==
    call # None /\ call.op = "_classify_move" /\ call.loss = 101 /\ call.ret = "mistake"

C6_OnlyThePlayersPlies ==
    (Returned /\ impl = "analyzer") =>
        /\ result.evaluations = SelectSeq(evaluations, LAMBDA ev : ev.mover = user_color)
        /\ Len(result.evaluations) =
              IF user_color = game.startTurn
              THEN (game.plies + 1) \div 2
              ELSE game.plies \div 2

\* the phases of a result
Phases == <<result.opening_phase, result.middlegame_phase, result.endgame_phase>>
InPhase(ev, phase) == \E j \in 1..Len(phase.moves) : phase.moves[j] = ev

\* C7: the three phase windows partition the filtered sequence:
\* opening.move_end = middlegame.move_start, middlegame.move_end =
\* endgame.move_start, endgame.move_end = total_moves + 1 (total_moves as
\* passed by analyze_game), and every move is in exactly one phase.
C7_PhasesPartition ==
    (Returned /\ impl = "analyzer") =>
        /\ result.opening_phase.move_end = result.middlegame_phase.move_start
        /\ result.middlegame_phase.move_end = result.endgame_phase.move_start
        /\ result.endgame_phase.move_end = Len(evaluations) + 1
        /\ \A i \in 1..Len(result.evaluations) :
              Cardinality({k \in 1..3 : InPhase(result.evaluations[i], Phases[k])}) = 1
        /\ \A k \in 1..3 : \A j \in 1..Len(Phases[k].moves) :
              \E i \in 1..Len(result.evaluations) : result.evaluations[i] = Phases[k].moves[j]
        /\ Len(Phases[1].moves) + Len(Phases[2].moves) + Len(Phases[3].moves)
              = Len(result.evaluations)

\* a game long enough for each of the three phases to hold a move
C7_Witness ==
    /\ Returned /\ impl = "analyzer"
    /\ \A k \in 1..3 : Len(Phases[k].moves) > 0

\* scenario A: White's single move analysed for white, the oracle answering
\* 0 centipawns before and after it
ScenarioA ==
    /\ Returned /\ impl = "analyzer"
    /\ user_color = WHITE /\ game.startTurn = WHITE /\ game.plies = 1
    /\ Len(evaluations) = 1
    /\ evaluations[1].oracle_before = [type |-> "cp", white |-> 0]
    /\ evaluations[1].oracle_after = [type |-> "cp", white |-> 0]

ScenarioALossAndTag ==
    /\ Len(result.evaluations) = 1
    /\ result.evaluations[1].evaluation_change = 0
    /\ result.evaluations[1].classification = "best"

\* C8 (as stated): scenario A yields loss 0, classification best, an opening
\* phase holding the single move and empty middlegame and endgame phases.
C8_SingleMoveInOpening ==
    ScenarioA =>
        /\ ScenarioALossAndTag
        /\ result.opening_phase.moves = result.evaluations
        /\ result.middlegame_phase.moves = <<>>
        /\ result.endgame_phase.moves = <<>>

\* C8 (amended): scenario A yields loss 0, classification best, a middlegame
\* phase holding the single move and empty opening and endgame phases.
C8_SingleMoveInMiddlegame ==
    ScenarioA =>
        /\ ScenarioALossAndTag
        /\ result.middlegame_phase.moves = result.evaluations
        /\ result.opening_phase.moves = <<>>
        /\ result.endgame_phase.moves = <<>>

C8_Witness == ScenarioA /\ result.best_moves = 1

\* the tally of the result, by tag
Tally(tag) ==
    IF impl = "service" THEN result.move_classifications[tag]
    ELSE CASE tag = "brilliant" -> result.brilliant_moves
           [] tag = "great" -> result.great_moves
           [] tag = "best" -> result.best_moves
           [] tag = "excellent" -> result.excellent_moves
           [] tag = "good" -> result.good_moves
           [] tag = "inaccuracy" -> result.inaccuracies
           [] tag = "mistake" -> result.mistakes
           [] tag = "blunder" -> result.blunders

\* C9: when the oracle's evaluation, from White's side, drops by 400
\* centipawns across White's one recorded move, the record has loss 400 and
\* classification blunder, and the tally is blunders = 1, all others 0.
C9_DropOf400IsOneBlunder ==
    (/\ Returned
     /\ game.startTurn = WHITE /\ game.plies = 1
     /\ impl = "analyzer" => user_color = WHITE
     /\ Len(ResultRecords) = 1
     /\ ResultRecords[1].oracle_before.type = "cp"
     /\ ResultRecords[1].oracle_after.type = "cp"
     /\ ResultRecords[1].oracle_before.white - ResultRecords[1].oracle_after.white = 400)
    => /\ LossOf(ResultRecords[1]) = 400
       /\ ResultRecords[1].classification = "blunder"
       /\ \A i \in 1..Len(Classifications) :
             Tally(Classifications[i]) = IF Classifications[i] = "blunder" THEN 1 ELSE 0

\* C10: on a movetext that is empty, malformed or holds an illegal move, also
\* after legal moves, analyze_game ends with a parse error and produces no
\* move record and no result (the oracle being available).
C10_BadMovetextIsParseError ==
    ((pgn.empty \/ pgn.bad) /\ impl # "none" /\ raised # "ValueError: Stockfish engine not found") =>
        /\ move_data = <<>>
        /\ evaluations = <<>>
        /\ result = None
        /\ pc = "raised" => raised = "ValueError: Invalid PGN"

\* ------------------------------------------------- resources and failures

\* C11: when the movetext of a call does not parse, no oracle process has
\* been started at any point of that call.
C11_NoEngineBeforeParse ==
    (impl # "none" /\ read_game(pgn) = None) => ~EngineWasStarted

\* C12: once analyze_game has returned or raised, by whatever exit path, no
\* oracle process that the call started is still running.
C12_NoEngineLeftRunning == Ended => engine # "running"

\* C13: when the oracle process cannot be started, the call ends by raising
\* an error to its caller, with no move record produced and no result.
C13_UnavailableEngineRaises ==
    (Ended /\ engine = "unavailable") =>
        /\ pc = "raised"
        /\ raised # NoError
        /\ result = None

\* C14: a ply whose evaluation returned no score still has its move record in
\* the result, with loss 0 and flagged as unscored: the result has one record
\* for every ply of the game.
Unflagged(rec) == "unscored" \notin DOMAIN rec
C14_OneRecordPerPly ==
    (Returned /\ impl = "service") =>
        /\ Len(result.moves) = game.plies
        /\ \A k \in 1..game.plies :
             \E i \in 1..Len(result.moves) :
                /\ result.moves[i].move = k
                /\ (\E j \in 1..Len(requests) : requests[j].ply = k /\ ~requests[j].scored)
                     => (~Unflagged(result.moves[i]) /\ result.moves[i].centipawn_loss = 0)

\* two requests are attempts at the same evaluation
SameEvaluation(r, q) == r.ply = q.ply /\ r.side = q.side
\* C15: an evaluation that comes back without a score is tried once more, for
\* the same position with a smaller depth, before the analysis goes on or ends.
C15_UnscoredIsRetriedOnce ==
    \A i \in 1..Len(requests) :
        ( /\ ~requests[i].scored
          /\ (i = 1 \/ ~SameEvaluation(requests[i - 1], requests[i]))
          /\ (i < Len(requests) \/ pc = "done") )
        => /\ i < Len(requests)
           /\ SameEvaluation(requests[i], requests[i + 1])
           /\ requests[i + 1].depth < requests[i].depth

\* a record that carries the mate signal of the position its move led to:
\* a mate flag and the number of moves to mate
MateTagged(rec) ==
    /\ "is_mate" \in DOMAIN rec
    /\ rec.is_mate
    /\ Abs(rec.mate_in) = Abs(rec.oracle_after.white)
\* C16: whenever the oracle reports a forced mate for the position after a
\* move, the evaluation recorded for that move is tagged as a mate with the
\* number of moves to mate.
C16_MateStaysMate ==
    (Returned /\ impl = "service") =>
        \A i \in 1..Len(result.moves) :
            result.moves[i].oracle_after.type = "mate" => MateTagged(result.moves[i])

\* C18: a call with a non-positive depth or a non-positive time limit fails
\* with a configuration error before any oracle process is started and before
\* any evaluation is requested.
C18_BadBudgetIsRejected ==
    (impl = "service" /\ (budget.depth <= 0 \/ budget.time_limit <= 0)) =>
        /\ ~EngineWasStarted
        /\ requests = <<>>
        /\ pc # "done"

RECURSIVE SumLoss(_)
SumLoss(recs) ==
    IF recs = <<>> THEN 0 ELSE Head(recs).centipawn_loss + SumLoss(Tail(recs))

\* C20: the average loss of a result, which analyze_game_background stores as
\* user_acpl for the player it analyses, is the mean of the losses of that
\* player's own moves, and 0 when the player has no move in the game.
C20_AverageIsThePlayersOwn ==
    (Returned /\ impl = "service") =>
        \A color \in {WHITE, BLACK} :
            LET own == SelectSeq(result.moves, LAMBDA rec : rec.mover = color)
            IN IF own = <<>>
               THEN result.average_num = 0
               ELSE result.average_num * Len(own) = SumLoss(own) * result.average_den

C17_OwnEngineOnly ==
    /\ \A s \in sent :
          /\ s.process \in 1..Len(processes)
          /\ processes[s.process].owner = s.task
    /\ \A s, q \in sent : s.process = q.process => s.task = q.task

\* two calls, of the service and of the analyzer, have both asked for
\* evaluations while neither had ended
C17_Witness ==
    \E s, q \in sent :
        /\ s.task # q.task
        /\ tasks[s.task].impl = "service" /\ tasks[q.task].impl = "analyzer"
        /\ tasks[s.task].pc = "analyse" /\ tasks[q.task].pc = "analyse"

\* ------------------------------------------------------ order of requests
\* C21: the service asks for the pre-move position of ply k, then for its
\* post-move position, then goes on to ply k + 1: the i-th request of a call
\* belongs to ply (i + 1) div 2, the odd ones before and the even ones after
\* the move, and a call that returns has asked twice for every ply.
C21_TwoRequestsPerPlyInOrder ==
    impl = "service" =>
        /\ \A i \in 1..Len(requests) :
              /\ requests[i].ply = (i + 1) \div 2
              /\ requests[i].side = (IF i % 2 = 1 THEN "before" ELSE "after")
              /\ requests[i].position =
                    (IF i % 2 = 1 THEN requests[i].ply - 1 ELSE requests[i].ply)
        /\ pc = "done" => Len(requests) = 2 * game.plies

\* a game of two plies has been analysed to its end
C21_Witness ==
    /\ impl = "service"
    /\ pc = "done"
    /\ game.plies = 2
    /\ Len(requests) = 4

\* C22: in every move record the stored best move is the oracle's suggestion
\* for the position before the recorded move was played.
C22_BestMoveIsThePreMoveOne ==
    (Returned /\ impl = "analyzer") =>
        \A i \in 1..Len(result.evaluations) :
            result.evaluations[i].best_move = result.evaluations[i].pre_best

\* ------------------------------------------------------- phase boundaries
\* the boundaries of the three phases of a result follow the heuristic for a
\* game of n moves
BoundariesFor(n) ==
    LET oe == Min(20, n \div 3)
        es == Max(oe + 10, (n * 2) \div 3)
    IN /\ result.opening_phase.move_start = 1
       /\ result.opening_phase.move_end = oe
       /\ result.middlegame_phase.move_start = oe
       /\ result.middlegame_phase.move_end = es
       /\ result.endgame_phase.move_start = es
       /\ result.endgame_phase.move_end = n + 1

Window(phase) ==
    SelectSeq(result.evaluations,
              LAMBDA ev : phase.move_start <= ev.move_number /\ ev.move_number < phase.move_end)

\* C24: the acpl of every phase is the sum of abs(loss) over the moves of its
\* window divided by their number, and 0 when the window holds no move; the
\* divisor is never 0.
C24_PhaseAcplIsMeanOfAbs ==
    (Returned /\ impl = "analyzer") =>
        \A k \in 1..Len(Phases) :
            LET phase == Phases[k]
            IN /\ phase.acpl_den > 0
               /\ IF Window(phase) = <<>>
                  THEN phase.acpl_sum = 0 /\ phase.acpl_den = 1
                  ELSE /\ phase.acpl_den = Len(Window(phase))
                       /\ phase.acpl_sum = SumAbsChange(Window(phase))

\* a result with an empty endgame and a middlegame in which gains and losses
\* both occur
C24_Witness ==
    /\ Returned
    /\ impl = "analyzer"
    /\ Window(result.endgame_phase) = <<>>
    /\ \E i, j \in 1..Len(result.middlegame_phase.moves) :
          /\ result.middlegame_phase.moves[i].evaluation_change > 0
          /\ result.middlegame_phase.moves[j].evaluation_change < 0

\* the moves of a sequence whose absolute swing satisfies a test
Swing(ev) == Abs(ev.evaluation_change)

\* C25: the key_positions of a phase are exactly its moves with a swing above
\* 100, critical_positions are exactly the player's moves with a swing above
\* 150, and blunder_moves are exactly the player's moves with a swing of 300
\* or more.
C25_ThreeSwingThresholds ==
    (Returned /\ impl = "analyzer") =>
        /\ \A k \in 1..Len(Phases) :
              Phases[k].key_positions =
                  SelectSeq(Phases[k].moves, LAMBDA ev : Swing(ev) > 100)
        /\ result.critical_positions =
              SelectSeq(result.evaluations, LAMBDA ev : Swing(ev) > 150)
        /\ result.blunder_moves =
              SelectSeq(result.evaluations, LAMBDA ev : Swing(ev) >= 300)

\* ------------------------------------------------------------ the opening
\* C26: the opening ply count returned is min(15, n), n being the number of
\* plies walked until the end of the game, 20 plies, or the first ply after
\* which fewer than 30 pieces remain, whichever comes first; it is never
\* above 15 and never above the number of plies of the game.
C26_OpeningPliesUntilFirstTrade ==
    walk.pc = "returned" =>
        /\ walk.opening_moves = Min(15, Min(walk.plies, Min(20, walk.trade)))
        /\ walk.opening_moves <= 15
        /\ walk.opening_moves <= walk.plies

\* C27: every phase of a result is a well-formed half-open span,
\* move_start <= move_end, whatever the length of the game.
C27_PhasesWellFormed ==
    (Returned /\ impl = "analyzer") =>
        \A k \in 1..Len(Phases) : Phases[k].move_start <= Phases[k].move_end

\* the eight counts of a result, by tag
CountsOf(res) ==
    IF impl = "service"
    THEN res.move_classifications
    ELSE [brilliant |-> res.brilliant_moves, great |-> res.great_moves,
          best |-> res.best_moves, excellent |-> res.excellent_moves,
          good |-> res.good_moves, inaccuracy |-> res.inaccuracies,
          mistake |-> res.mistakes, blunder |-> res.blunders]

\* C28: in every result the eight classification counts add up to the number
\* of move records of the result, which is the reported total_moves, and the
\* count of every tag is the number of records with that tag.
C28_CountsAddUp ==
    Returned =>
        LET counts == CountsOf(result)
        IN /\ counts.brilliant + counts.great + counts.best + counts.excellent
                + counts.good + counts.inaccuracy + counts.mistake + counts.blunder
              = Len(ResultRecords)
           /\ result.total_moves = Len(ResultRecords)
           /\ \A k \in 1..Len(Classifications) :
                 counts[Classifications[k]] =
                    Cardinality({i \in 1..Len(ResultRecords) :
                                    ResultRecords[i].classification = Classifications[k]})

\* results of both analysers with records under two different tags
C28_Witness ==
    /\ Returned
    /\ Len(ResultRecords) = 2
    /\ ResultRecords[1].classification = "best"
    /\ ResultRecords[2].classification = "blunder"

\* ------------------------------------------------- the flag and the row

\* the requests that have ended with an exception
FailedRuns == {r \in 1..MaxRuns : sessions[r].pc = "failed"}

\* C29: whatever the interleaving of analyze_game_background runs and
\* delete_game_analysis calls, the committed game is flagged is_analyzed exactly
\* when it has a GameAnalysis row, it has at most one such row, and a run that
\* failed has written neither.
C29_FlagIffOneRow ==
    /\ store.is_analyzed <=> store.rows # {}
    /\ Cardinality(store.rows) <= 1
    /\ \A r \in FailedRuns : ~sessions[r].wrote

\* ------------------------------------------------------------ the free trial

\* C30: from a new free user, after any calls of increment_ai_usage,
\* upgrade_to_pro and downgrade_to_free, a user on the free tier has
\* 0 <= ai_analyses_used <= ai_analyses_limit, and an increment_ai_usage that
\* returned True for a free user has raised ai_analyses_used by exactly 1.
C30_FreeUsageWithinLimit ==
    /\ account.tier = "free" =>
           /\ 0 <= account.ai_analyses_used
           /\ account.ai_analyses_used <= account.ai_analyses_limit
    /\ (account.last.op = "increment" /\ account.last.tier = "free" /\ account.last.ret) =>
           account.ai_analyses_used = account.last.used + 1

\* a free user uses up the last analysis of the trial, other calls having come
\* in between
C30_Witness ==
    /\ account.last.op = "increment"
    /\ account.last.tier = "free"
    /\ account.last.ret
    /\ account.ai_analyses_used = account.ai_analyses_limit
    /\ account.trial_exhausted_at = account.now
    /\ account.now > FREE_AI_ANALYSIS_LIMIT
====
